---- MODULE Spec2Model ----
(***************************************************************************)
(* Tadiran air conditioner over a Broadlink IR blaster.                    *)
(*                                                                         *)
(* custom_components/tadiran/climate.py: the field table `unpack`, the     *)
(* packer/encoder `pack`, the device session `BroadlinkTadiran` and the    *)
(* controller `TadiranClimate`.                                            *)
(* custom_components/tadiran/config_flow.py: `tadiran_validate` and        *)
(* `ConfigFlow.async_step_user`.                                           *)
(***************************************************************************)
EXTENDS Integers, Sequences, FiniteSets, TLC

VARIABLES
    vals,       \* pack: the dict handed to pack()
    ret,        \* pack: outcome of the last pack() call
    flow,       \* ConfigFlow: result of the last async_step_user
    entries,    \* ConfigFlow: the config entries created so far
    ctor,       \* BroadlinkTadiran.__init__: the last construction and its outcome
    entity,     \* TadiranClimate: the controller's intent state
    remote,     \* TadiranClimate.remote: the BroadlinkTadiran session
    op,         \* the last controller/session operation and what it did
    selected    \* history: the last non-off mode a caller passed to set_hvac_mode

vars == <<vals, ret, flow, entries, ctor, entity, remote, op, selected>>

----------------------------------------------------------------------------
(* Bounds of the model *)

\* at most this many keys of the dict handed to pack() directly are varied
MaxPresent == 1
\* how far around the interesting points (0, 2^(bits-1), 2^bits, the default)
\* the values handed to pack() range
Slack == 1
\* how far around the initial target temperature (24) the temperatures handed
\* to set_temperature range, beside MIN_TEMP and MAX_TEMP
TempSpread == 0
\* config entries created before the flow is no longer started
MaxEntries == 3

----------------------------------------------------------------------------
(* climate.py: constants and the field table *)

MIN_TEMP == 16
MAX_TEMP == 30

\* list("0" * (35))
WordBits == 35

\* PREFIX = "26004e0000012793", as hex digits
PREFIX == <<2,6, 0,0, 4,14, 0,0, 0,0, 0,1, 2,7, 9,3>>
\* SUFFIX = "14000d0500000000000000000000", as hex digits
SUFFIX == <<1,4, 0,0, 0,13, 0,5, 0,0, 0,0, 0,0, 0,0, 0,0, 0,0, 0,0, 0,0, 0,0, 0,0>>

unpack == <<
    [name |-> "unknown2", shift |-> 27, bits |-> 8, default |-> 74],
    [name |-> "blow",     shift |-> 23, bits |-> 1, default |-> 0],
    [name |-> "light",    shift |-> 21, bits |-> 1, default |-> 1],
    [name |-> "turbo",    shift |-> 20, bits |-> 1, default |-> 0],
    [name |-> "temp",     shift |-> 8,  bits |-> 4, default |-> 20],
    [name |-> "swing",    shift |-> 6,  bits |-> 2, default |-> 0],
    [name |-> "fan",      shift |-> 4,  bits |-> 2, default |-> 1],
    [name |-> "on",       shift |-> 3,  bits |-> 1, default |-> 1],
    [name |-> "mode",     shift |-> 0,  bits |-> 3, default |-> 1] >>

FieldNames == {unpack[k].name : k \in 1..Len(unpack)}

\* a lookup that always falls back to the default
Get_default_only(d, key, default) == default

\* dict.get(key, default)
Get(d, key, default) == IF key \in DOMAIN d THEN d[key] ELSE default

----------------------------------------------------------------------------
(* climate.py: pack *)

\* bytearray.fromhex
fromhex(h) == [j \in 1..(Len(h) \div 2) |-> 16 * h[2*j - 1] + h[2*j]]

RECURSIVE Bin(_)
\* the binary digits of n >= 0, most significant first
Bin(n) == IF n < 2 THEN << IF n = 0 THEN "0" ELSE "1" >>
          ELSE Bin(n \div 2) \o << IF n % 2 = 0 THEN "0" ELSE "1" >>

\* k zeros; none when the digits already fill the width
Zeros(k) == IF k <= 0 THEN << >> ELSE [j \in 1..k |-> "0"]

\* "{0:0<width>b}".format(i): sign, then zero padding up to a total of `width`
\* characters, then the binary digits; never shorter than the digits need
format_b(i, width) ==
    IF i >= 0
    THEN Zeros(width - Len(Bin(i))) \o Bin(i)
    ELSE <<"-">> \o Zeros(width - 1 - Len(Bin(-i))) \o Bin(-i)

\* s[::-1]
Reversed(s) == [j \in 1..Len(s) |-> s[Len(s) + 1 - j]]

\* the formatted value without the [::-1]: most significant bit first
FieldChars_msb_first(i, width) == format_b(i, width)

\* v = ("{0:0%d" % descr["bits"] + "b}").format(i)[::-1]
FieldChars(i, width) == Reversed(format_b(i, width))

RECURSIVE PackFields(_, _, _)
\* for descr in unpack: ... bits[start + i] = v[i] for i in range(descr["bits"])
PackFields(k, bits, d) ==
    IF k > Len(unpack) THEN bits
    ELSE LET descr == unpack[k]
             start == descr.shift
             v     == FieldChars(Get(d, descr.name, descr.default), descr.bits)
         IN  PackFields(k + 1,
                        SubSeq(bits, 1, start)
                            \o SubSeq(v, 1, descr.bits)
                            \o SubSeq(bits, start + descr.bits + 1, Len(bits)),
                        d)

\* the two duration codes exchanged
PulsePairs_swapped(bits) ==
    [j \in 1..(2 * Len(bits)) |->
        IF j % 2 = 1 THEN 22
        ELSE IF bits[j \div 2] = "0" THEN 55 ELSE 19]

\* data.append(0x16); data.append(19 if x == "0" else 55)
PulsePairs(bits) ==
    [j \in 1..(2 * Len(bits)) |->
        IF j % 2 = 1 THEN 22
        ELSE IF bits[j \div 2] = "0" THEN 19 ELSE 55]

pack(d) ==
    fromhex(PREFIX)
        \o PulsePairs(PackFields(1, [p \in 1..WordBits |-> "0"], d))
        \o fromhex(SUFFIX)

----------------------------------------------------------------------------
(* The packer on its own: pack() applied to the empty dict and to the dict    *)
(* with every field at its largest value, each with at most MaxPresent keys  *)
(* set to other values                                                       *)

Abs(x) == IF x < 0 THEN -x ELSE x

Max(a, b) == IF a >= b THEN a ELSE b

\* the values tried for a field: every value that fits when the field is at
\* most 4 bits wide, and the values within Slack of 0, 2^(bits-1), 2^bits and
\* the default, with either sign
InputValues(descr) ==
    LET top == 2 ^ descr.bits
        lim == Max(top, descr.default) + Slack
    IN  { v \in (-lim)..lim :
            \/ (descr.bits <= 4 /\ v \in 0..(top - 1))
            \/ \E q \in {0, top \div 2, top, descr.default} :
                   Abs(Abs(v) - q) <= Slack }

\* a key that is not in the field table
OtherKey == "power"

KeyValues(key) ==
    IF key = OtherKey THEN {0, 1}
    ELSE InputValues(CHOOSE descr \in {unpack[k] : k \in 1..Len(unpack)} :
                        descr.name = key)

EmptyDict == [key \in {} |-> 0]

RECURSIVE DictsOver(_)
DictsOver(keys) ==
    IF keys = {} THEN {EmptyDict}
    ELSE LET key == CHOOSE key \in keys : TRUE
         IN  { (key :> v) @@ d : v \in KeyValues(key), d \in DictsOver(keys \ {key}) }

\* every field present, each at 2^bits - 1
FullDict == [n \in FieldNames |->
                2 ^ (CHOOSE descr \in {unpack[k] : k \in 1..Len(unpack)} :
                        descr.name = n).bits - 1]

Overrides ==
    UNION { DictsOver(keys) :
              keys \in { S \in SUBSET (FieldNames \cup {OtherKey}) :
                           Cardinality(S) <= MaxPresent } }

Dicts == { o @@ b : o \in Overrides, b \in {EmptyDict, FullDict} }

NotCalled == [called |-> FALSE, exc |-> "none", data |-> << >>]

\* nothing set up: no flow step taken, no session constructed, no controller
NoFlow   == [step |-> "init", submitted |-> FALSE, errors |-> {}]
NoCtor   == [done |-> FALSE, gendevice |-> "none", auth |-> "none",
             result |-> "none", available |-> FALSE]
NoEntity == [exists |-> FALSE, hvac_mode |-> "off", last_hvac_mode |-> "cool",
             fan_mode |-> "auto", swing_mode |-> "off", target_temp |-> 24]
NoRemote == [exists |-> FALSE, available |-> FALSE]
NoOp     == [name |-> "none", arg |-> "none", transport |-> "none",
             calls |-> << >>, wire |-> << >>, exc |-> "none", alive |-> "none"]

RestIdle ==
    /\ flow = NoFlow /\ entries = << >> /\ ctor = NoCtor /\ entity = NoEntity
    /\ remote = NoRemote /\ op = NoOp /\ selected = "none"

InitPack ==
    /\ vals \in Dicts
    /\ ret = NotCalled
    /\ RestIdle

\* bytes = pack(data): pack has no raise statement and every index it uses is
\* within the string format() returns, so the call always returns a frame
pack_call ==
    /\ ~ret.called
    /\ ret' = [called |-> TRUE, exc |-> "none", data |-> pack(vals)]
    /\ UNCHANGED <<vals, flow, entries, ctor, entity, remote, op, selected>>

NextPack == pack_call

SpecPack == InitPack /\ [][NextPack]_vars

----------------------------------------------------------------------------
(* climate.py: BroadlinkTadiran, the device session *)

\* what the transport can answer
GendeviceOutcomes == {"ok", "DeviceOfflineError", "Exception"}
AuthOutcomes      == {"True", "False", "DeviceOfflineError", "Exception"}
SendOutcomes      == {"ok", "DeviceOfflineError"}

\* BroadlinkTadiran.__init__(ip, rmtype) with gendevice answering g and
\* dev.auth() answering a: the exception raised, or a session with _available
BroadlinkTadiran_init(g, a) ==
    IF g = "DeviceOfflineError"
    THEN [result |-> "CannotConnect", auth |-> "none", available |-> FALSE]
    ELSE IF g # "ok"
    THEN [result |-> g, auth |-> "none", available |-> FALSE]
    ELSE IF a = "DeviceOfflineError"
    THEN [result |-> "InvalidAuth", auth |-> a, available |-> FALSE]
    ELSE IF a \notin {"True", "False"}
    THEN [result |-> a, auth |-> a, available |-> FALSE]
    ELSE [result |-> "session", auth |-> a, available |-> (a = "True")]

CtorRecord(g, a) ==
    LET r == BroadlinkTadiran_init(g, a)
    IN  [done |-> TRUE, gendevice |-> g, auth |-> r.auth,
         result |-> r.result, available |-> r.available]

\* the temperatures handed to set_temperature
Temps == {MIN_TEMP, MAX_TEMP} \cup ((24 - TempSpread)..(24 + TempSpread))

\* pack is a pure function: packed[d] = pack(d), worked out once for every
\* dict of codes that send_state can build
packed ==
    [d \in [temp : Temps, fan : 0..3, swing : 0..1, on : 0..1, mode : 0..4]
        |-> pack(d)] @@ << >>

\* send() with a second transmission after a failed one
send_retrying(args, t) ==
    LET data == [n \in (DOMAIN args \cap FieldNames) |-> args[n]]
    IN  IF t = "ok" THEN [wire |-> <<packed[data]>>, exc |-> "none"]
        ELSE [wire |-> <<packed[data], packed[data]>>, exc |-> "none"]

\* BroadlinkTadiran.send(args_vars) with dev.send_data answering t: the frames
\* handed to send_data and the exception that leaves send
send(args, t) ==
    LET data == [n \in (DOMAIN args \cap FieldNames) |-> args[n]]
    IN  [wire |-> <<packed[data]>>,
         exc  |-> IF t = "ok" THEN "none" ELSE t]

\* a probe that records what it found in _available
is_alive_updating(session, t) ==
    [session |-> [session EXCEPT !.available = (t = "ok")],
     alive   |-> IF t = "ok" THEN "True" ELSE "False"]

\* BroadlinkTadiran.is_alive() with dev.send_packet answering t
is_alive(session, t) ==
    [session |-> session,
     alive   |-> IF t = "ok" THEN "True" ELSE "False"]

----------------------------------------------------------------------------
(* climate.py: TadiranClimate, the controller *)

HvacModes  == {"off", "cool", "dry", "heat_cool", "heat", "fan_only", "auto"}
FanModes   == {"auto", "low", "medium", "high", "diffuse"}
SwingModes == {"off", "vertical", "horizontal"}

\* the mode table with heat sent as heat_cool
ModeCode_heat_as_3(m) ==
    CASE m = "off" -> 0 [] m = "fan_only" -> 0 [] m = "cool" -> 1
      [] m = "dry" -> 2 [] m = "heat_cool" -> 3 [] m = "heat" -> 3
      [] OTHER -> 1

\* {HVAC_MODE_OFF: 0, HVAC_MODE_FAN_ONLY: 0, ...}.get(self._hvac_mode, 1)
ModeCode(m) ==
    CASE m = "off" -> 0 [] m = "fan_only" -> 0 [] m = "cool" -> 1
      [] m = "dry" -> 2 [] m = "heat_cool" -> 3 [] m = "heat" -> 4
      [] OTHER -> 1

\* {FAN_AUTO: 0, FAN_LOW: 1, FAN_MEDIUM: 2, FAN_HIGH: 3}.get(self._fan_mode, 0)
FanCode(f) ==
    CASE f = "auto" -> 0 [] f = "low" -> 1 [] f = "medium" -> 2
      [] f = "high" -> 3 [] OTHER -> 0

\* the dict with power taken from the swing setting
args_vars_on_from_swing(e) ==
    [temp  |-> e.target_temp,
     fan   |-> FanCode(e.fan_mode),
     swing |-> IF e.swing_mode # "off" THEN 1 ELSE 0,
     on    |-> IF e.swing_mode # "off" THEN 1 ELSE 0,
     mode  |-> ModeCode(e.hvac_mode)]

\* the dict send_state builds; int() of a whole-degree temperature is itself
args_vars(e) ==
    [temp  |-> e.target_temp,
     fan   |-> FanCode(e.fan_mode),
     swing |-> IF e.swing_mode # "off" THEN 1 ELSE 0,
     on    |-> IF e.hvac_mode # "off" THEN 1 ELSE 0,
     mode  |-> ModeCode(e.hvac_mode)]

\* TadiranClimate.send_state(): one self.remote.send(args_vars)
send_state(e, t) ==
    [calls |-> <<args_vars(e)>>] @@ send(args_vars(e), t)

\* what one controller operation did: the send() calls, the frames handed to
\* the transport and the exception that left the operation
OpRecord(name, arg, e, t) ==
    [name |-> name, arg |-> arg, transport |-> t, alive |-> "none"]
        @@ send_state(e, t)

\* TadiranClimate.__init__: the intent state, then self.remote =
\* BroadlinkTadiran(ip, rm_type); an exception there leaves no controller
TadiranClimate_init ==
    /\ ~entity.exists
    /\ \E g \in GendeviceOutcomes, a \in AuthOutcomes :
          LET c == CtorRecord(g, a)
          IN  /\ ctor' = c
              /\ IF c.result = "session"
                 THEN /\ entity' = [NoEntity EXCEPT !.exists = TRUE]
                      /\ remote' = [exists |-> TRUE, available |-> c.available]
                 ELSE UNCHANGED <<entity, remote>>
    /\ UNCHANGED <<vals, ret, flow, entries, op, selected>>

set_temperature ==
    /\ entity.exists
    /\ \E temp \in Temps, t \in SendOutcomes :
          LET e == [entity EXCEPT !.target_temp = temp]
          IN  /\ entity' = e
              /\ op' = OpRecord("set_temperature", temp, e, t)
    /\ UNCHANGED <<vals, ret, flow, entries, ctor, remote, selected>>

set_fan_mode ==
    /\ entity.exists
    /\ \E fan_mode \in FanModes, t \in SendOutcomes :
          LET e == [entity EXCEPT !.fan_mode = fan_mode]
          IN  /\ entity' = e
              /\ op' = OpRecord("set_fan_mode", fan_mode, e, t)
    /\ UNCHANGED <<vals, ret, flow, entries, ctor, remote, selected>>

\* if hvac_mode == HVAC_MODE_OFF: self._last_hvac_mode = hvac_mode
\* self._hvac_mode = hvac_mode
hvac_mode_set(e, hvac_mode) ==
    [e EXCEPT !.last_hvac_mode = IF hvac_mode = "off" THEN hvac_mode ELSE @,
              !.hvac_mode = hvac_mode]

set_hvac_mode ==
    /\ entity.exists
    /\ \E hvac_mode \in HvacModes, t \in SendOutcomes :
          LET e == hvac_mode_set(entity, hvac_mode)
          IN  /\ entity' = e
              /\ op' = OpRecord("set_hvac_mode", hvac_mode, e, t)
              /\ selected' = IF hvac_mode # "off" THEN hvac_mode ELSE selected
    /\ UNCHANGED <<vals, ret, flow, entries, ctor, remote>>

set_swing_mode ==
    /\ entity.exists
    /\ \E swing_mode \in SwingModes, t \in SendOutcomes :
          LET e == [entity EXCEPT !.swing_mode = swing_mode]
          IN  /\ entity' = e
              /\ op' = OpRecord("set_swing_mode", swing_mode, e, t)
    /\ UNCHANGED <<vals, ret, flow, entries, ctor, remote, selected>>

\* await self.async_set_hvac_mode(self._last_hvac_mode), which the base class
\* runs as set_hvac_mode(self._last_hvac_mode)
async_turn_on ==
    /\ entity.exists
    /\ \E t \in SendOutcomes :
          LET e == hvac_mode_set(entity, entity.last_hvac_mode)
          IN  /\ entity' = e
              /\ op' = OpRecord("async_turn_on", "none", e, t)
    /\ UNCHANGED <<vals, ret, flow, entries, ctor, remote, selected>>

\* self.remote.is_alive()
probe ==
    /\ remote.exists
    /\ \E t \in SendOutcomes :
          LET r == is_alive(remote, t)
          IN  /\ remote' = r.session
              /\ op' = [name |-> "is_alive", arg |-> "none", transport |-> t,
                        calls |-> << >>, wire |-> << >>, exc |-> "none",
                        alive |-> r.alive]
    /\ UNCHANGED <<vals, ret, flow, entries, ctor, entity, selected>>

Init ==
    /\ vals = EmptyDict /\ ret = NotCalled
    /\ RestIdle

Next ==
    \/ TadiranClimate_init
    \/ set_temperature
    \/ set_fan_mode
    \/ set_hvac_mode
    \/ set_swing_mode
    \/ async_turn_on
    \/ probe

Spec == Init /\ [][Next]_vars

----------------------------------------------------------------------------
(* config_flow.py: tadiran_validate and ConfigFlow.async_step_user *)

\* what the user can type into the form
Addresses == {"192.168.1.10", "192.168.1.11"}
Names     == {"tadiran", "bedroom"}
UserInputs == [ip_address : Addresses, name : Names]

\* validation that only looks at whether construction raised
tadiran_validate_unchecked(g, a) ==
    LET dev == BroadlinkTadiran_init(g, a)
    IN  IF dev.result # "session" THEN dev.result ELSE "none"

\* tadiran_validate(ip, rm_type): the exception it raises, "none" if it returns
tadiran_validate(g, a) ==
    LET dev == BroadlinkTadiran_init(g, a)
    IN  IF dev.result # "session" THEN dev.result
        ELSE IF ~dev.available THEN "CannotConnect"
        ELSE "none"

\* the except clauses of async_step_user
StepErrors(exc) ==
    IF exc = "CannotConnect" THEN {<<"base", "cannot_connect">>}
    ELSE IF exc = "InvalidAuth" THEN {<<"base", "invalid_auth">>}
    ELSE {<<"base", "unknown">>}

\* async_step_user(user_input=None): the empty form
async_step_user_form ==
    /\ Len(entries) < MaxEntries
    /\ flow' = [step |-> "form", submitted |-> FALSE, errors |-> {}]
    /\ UNCHANGED <<vals, ret, entries, ctor, entity, remote, op, selected>>

\* async_step_user(user_input): validate, then create the entry or show the
\* form again with errors["base"]
async_step_user ==
    /\ Len(entries) < MaxEntries
    /\ \E user_input \in UserInputs, g \in GendeviceOutcomes, a \in AuthOutcomes :
          LET exc == tadiran_validate(g, a)
          IN  /\ ctor' = CtorRecord(g, a)
              /\ IF exc = "none"
                 THEN /\ flow' = [step |-> "create_entry", submitted |-> TRUE,
                                  errors |-> {}]
                      /\ entries' = Append(entries,
                                           [title |-> user_input.name,
                                            data  |-> user_input])
                 ELSE /\ flow' = [step |-> "form", submitted |-> TRUE,
                                  errors |-> StepErrors(exc)]
                      /\ UNCHANGED entries
    /\ UNCHANGED <<vals, ret, entity, remote, op, selected>>

NextFlow ==
    \/ async_step_user_form
    \/ async_step_user

SpecFlow == Init /\ [][NextFlow]_vars

----------------------------------------------------------------------------
(* Reading a frame back: the inverse of the encoder, used to state the claims *)

PrefixLen == Len(PREFIX) \div 2
SuffixLen == Len(SUFFIX) \div 2

\* bit p (0-based) of the command word a frame carries
FrameBit(frame, p) == IF frame[PrefixLen + 2 * p + 2] = 55 THEN 1 ELSE 0

RECURSIVE FrameField(_, _, _)
\* the number held by the `width` bits starting at bit `shift`, LSB first
FrameField(frame, shift, width) ==
    IF width = 0 THEN 0
    ELSE FrameBit(frame, shift) + 2 * FrameField(frame, shift + 1, width - 1)

Fits(v, width) == 0 <= v /\ v < 2 ^ width

DescrOf(name) == CHOOSE descr \in {unpack[k] : k \in 1..Len(unpack)} : descr.name = name

PresentFields(d) == DOMAIN d \cap FieldNames

\* what a value becomes in a field `width` bits wide: the low bits of a value
\* >= 0; for a negative value the low bits of its magnitude, with the top bit
\* set by the sign character when the magnitude needs fewer than `width` digits
Truncated(v, width) ==
    IF v >= 0 THEN v % (2 ^ width)
    ELSE IF -v >= 2 ^ (width - 1) THEN (-v) % (2 ^ width)
    ELSE (-v) + 2 ^ (width - 1)

\* C2 as claimed: pack rejects a value that does not fit its field with
\* OutOfRange and produces no frame
C2_Claimed ==
    ret.called =>
        ((\E n \in PresentFields(vals) : ~Fits(vals[n], DescrOf(n).bits))
            => (ret.exc = "OutOfRange" /\ ret.data = << >>))

\* C2 amended: pack never rejects. The value 2^bits - 1 is placed at the
\* field's shift unchanged; a value >= 2^bits is silently truncated to its low
\* `bits` bits; a negative value is accepted too and leaves Truncated(v, bits)
C2_PackTruncates ==
    ret.called =>
        /\ ret.exc = "none"
        /\ \A n \in PresentFields(vals) :
              FrameField(ret.data, DescrOf(n).shift, DescrOf(n).bits)
                  = Truncated(vals[n], DescrOf(n).bits)

\* a field given exactly 2^bits - 1 beside a field given a value that does
\* not fit, both packed
C2_Witness ==
    /\ ret.called
    /\ \E n \in PresentFields(vals) : vals[n] = 2 ^ DescrOf(n).bits - 1
    /\ \E n \in PresentFields(vals) : vals[n] >= 2 ^ DescrOf(n).bits
    /\ Len(ret.data) > 0

AllFit(d) == \A n \in PresentFields(d) : Fits(d[n], DescrOf(n).bits)

\* dict lookup with the table default for an absent field, as the claims read it
Resolved(d, descr) == IF descr.name \in DOMAIN d THEN d[descr.name] ELSE descr.default

\* bit p (0-based) of the command word as the field layout prescribes it:
\* bit (p - shift) of the field covering p, 0 where no field covers p
LayoutBit(d, p) ==
    LET cover == {k \in 1..Len(unpack) :
                     p \in unpack[k].shift..(unpack[k].shift + unpack[k].bits - 1)}
    IN  IF cover = {} THEN 0
        ELSE LET descr == unpack[CHOOSE k \in cover : TRUE]
             IN  (Resolved(d, descr) \div (2 ^ (p - descr.shift))) % 2

\* C5: for a dict whose every value fits its field, the frame is 92 bytes:
\* the preamble 26 00 4e 00 00 01 27 93, then for each bit 0..34 in ascending
\* order 0x16 followed by 19 (bit 0) or 55 (bit 1), then the 14-byte suffix
\* 14 00 0d 05 00 ... 00. The frame is a function of the table fields alone,
\* so dicts that agree on every table field give identical frames
C5_FrameShape ==
    (ret.called /\ AllFit(vals)) =>
        /\ ret.exc = "none"
        /\ Len(ret.data) = 8 + 2 * 35 + 14
        /\ SubSeq(ret.data, 1, 8) = <<38, 0, 78, 0, 0, 1, 39, 147>>
        /\ \A p \in 0..34 :
              /\ ret.data[9 + 2 * p] = 22
              /\ ret.data[10 + 2 * p] = (IF LayoutBit(vals, p) = 0 THEN 19 ELSE 55)
        /\ SubSeq(ret.data, 79, 92) = <<20, 0, 13, 5, 0, 0, 0, 0, 0, 0, 0, 0, 0, 0>>

\* a dict with a key outside the table and a table field set to a non-zero
\* value that fits, packed
C5_Witness ==
    /\ ret.called /\ AllFit(vals)
    /\ OtherKey \in DOMAIN vals
    /\ \E n \in PresentFields(vals) : vals[n] > 0
    /\ Len(ret.data) = 92

\* C6 as claimed: reading a frame back gives the supplied value for every
\* present field and the table default for every omitted field
C6_Claimed ==
    (ret.called /\ AllFit(vals)) =>
        \A k \in 1..Len(unpack) :
            FrameField(ret.data, unpack[k].shift, unpack[k].bits)
                = Resolved(vals, unpack[k])

\* C6 amended: reading a frame back gives the supplied value for every present
\* field; for an omitted field it gives the table default for every field but
\* temp (unknown2 gives 0x4A), and 4 for temp, whose default 20 does not fit
\* its 4 bits and is cut to 20 mod 16
C6_RoundTrip ==
    (ret.called /\ AllFit(vals)) =>
        \A k \in 1..Len(unpack) :
            FrameField(ret.data, unpack[k].shift, unpack[k].bits)
                = IF unpack[k].name \in DOMAIN vals THEN vals[unpack[k].name]
                  ELSE IF unpack[k].name = "temp" THEN 4
                  ELSE unpack[k].default

\* a frame packed from a dict that omits temp and unknown2 and sets another
\* field to a non-zero value that fits
C6_Witness ==
    /\ ret.called /\ AllFit(vals)
    /\ "temp" \notin DOMAIN vals /\ "unknown2" \notin DOMAIN vals
    /\ \E n \in PresentFields(vals) : vals[n] > 0
    /\ FrameField(ret.data, 8, 4) = 4
    /\ FrameField(ret.data, 27, 8) = 74

----------------------------------------------------------------------------
(* The controller and the session *)

Setters == {"set_hvac_mode", "set_fan_mode", "set_swing_mode", "set_temperature"}

\* C1 as claimed: when a caller has selected a non-off mode m, then called
\* set_hvac_mode(off), the async_turn_on that follows leaves hvac_mode = m and
\* sends a frame with on = 1
C1_Claimed ==
    [][ ( /\ op.name = "set_hvac_mode" /\ op.arg = "off"
          /\ selected # "none"
          /\ op'.name = "async_turn_on" )
        => ( /\ entity'.hvac_mode = selected
             /\ Len(op'.wire) = 1
             /\ FrameField(op'.wire[1], 3, 1) = 1 ) ]_vars

\* the transport answered as its interface says: reachable or offline, and
\* authentication accepted, rejected or offline
WithinInterface ==
    /\ ctor.gendevice \in {"ok", "DeviceOfflineError"}
    /\ ctor.auth \in {"True", "False", "DeviceOfflineError", "none"}

\* C3 as claimed: an unreachable device gives CannotConnect, a rejected
\* authentication gives InvalidAuth, and a session exists only with
\* available = true after authentication succeeded
C3_Claimed ==
    (ctor.done /\ WithinInterface) =>
        /\ ctor.result \in {"CannotConnect", "InvalidAuth", "session"}
        /\ ("DeviceOfflineError" \in {ctor.gendevice, ctor.auth}
                => ctor.result = "CannotConnect")
        /\ (ctor.auth = "False" => ctor.result = "InvalidAuth")
        /\ (ctor.result = "session" => (ctor.available /\ ctor.auth = "True"))

\* C4: whatever send and is_alive calls were made on the session and however
\* they ended, available is what the authentication call returned when the
\* session was constructed
C4_AvailableFixed ==
    remote.exists => (remote.available = (ctor.auth = "True"))

\* a probe that found the device offline on a session whose available is
\* still true
C4_Witness ==
    /\ remote.exists /\ remote.available
    /\ op.name = "is_alive" /\ op.transport = "DeviceOfflineError"
    /\ op.alive = "False"

Sent == op.name \in Setters \cup {"async_turn_on"}

\* C7 as claimed: the mode field is cool 1, dry 2, heat_cool 3, heat 4,
\* fan_only 0 and 0 for every unmapped hvac_mode
C7_Claimed ==
    Sent =>
        LET m    == entity.hvac_mode
            code == op.calls[1].mode
        IN  /\ Len(op.calls) = 1
            /\ (m = "cool" => code = 1) /\ (m = "dry" => code = 2)
            /\ (m = "heat_cool" => code = 3) /\ (m = "heat" => code = 4)
            /\ (m = "fan_only" => code = 0)
            /\ (m \notin {"off", "cool", "dry", "heat_cool", "heat", "fan_only"}
                    => code = 0)

\* C7 amended: the mode field is cool 1, dry 2, heat_cool 3, heat 4,
\* fan_only 0, off 0, and 1 (the code of cool) for every unmapped hvac_mode;
\* the frame carries that code in bits 0..2
C7_ModeField ==
    Sent =>
        LET m    == entity.hvac_mode
            code == op.calls[1].mode
        IN  /\ Len(op.calls) = 1 /\ Len(op.wire) = 1
            /\ (m = "cool" => code = 1) /\ (m = "dry" => code = 2)
            /\ (m = "heat_cool" => code = 3) /\ (m = "heat" => code = 4)
            /\ (m = "fan_only" => code = 0) /\ (m = "off" => code = 0)
            /\ (m \notin {"off", "cool", "dry", "heat_cool", "heat", "fan_only"}
                    => code = 1)
            /\ FrameField(op.wire[1], 0, 3) = code

\* an unmapped mode was set and sent as 1, and heat was sent as 4
C7_Witness ==
    /\ op.name = "set_hvac_mode" /\ op.arg = "auto"
    /\ entity.hvac_mode = "auto"
    /\ op.calls[1].mode = 1

C9_NoRetry ==
    /\ Len(op.wire) <= 1
    /\ Sent =>
        /\ Len(op.wire) = 1
        /\ op.exc = (IF op.transport = "ok" THEN "none" ELSE op.transport)
        /\ (op.name = "set_hvac_mode" => entity.hvac_mode = op.arg)
        /\ (op.name = "set_fan_mode" => entity.fan_mode = op.arg)
        /\ (op.name = "set_swing_mode" => entity.swing_mode = op.arg)
        /\ (op.name = "set_temperature" => entity.target_temp = op.arg)

\* set_hvac_mode(heat) whose transmission failed: the error came out and the
\* controller is in heat
C9_Witness ==
    /\ op.name = "set_hvac_mode" /\ op.arg = "heat"
    /\ op.transport = "DeviceOfflineError" /\ op.exc = "DeviceOfflineError"
    /\ entity.hvac_mode = "heat"
    /\ Len(op.wire) = 1

----------------------------------------------------------------------------
(* The config flow *)

\* C10: a step creates an entry only if the session was constructed and its
\* authentication returned true; a submitted step with any other outcome
\* creates none and shows the form with exactly one error, one of
\* cannot_connect, invalid_auth, unknown
C10_EntryOnlyIfAuthed ==
    [][ /\ (entries' # entries =>
                /\ ctor'.result = "session" /\ ctor'.auth = "True"
                /\ flow'.step = "create_entry")
        /\ ((flow'.submitted /\ ~(ctor'.result = "session" /\ ctor'.auth = "True")) =>
                /\ entries' = entries
                /\ flow'.step = "form"
                /\ Cardinality(flow'.errors) = 1
                /\ flow'.errors \subseteq
                       {<<"base", "cannot_connect">>, <<"base", "invalid_auth">>,
                        <<"base", "unknown">>}) ]_vars

\* a submitted step whose authentication returned false: the form again, with
\* cannot_connect, after an earlier step created an entry
C10_Witness ==
    /\ flow.submitted /\ flow.step = "form"
    /\ ctor.result = "session" /\ ctor.auth = "False"
    /\ flow.errors = {<<"base", "cannot_connect">>}
    /\ Len(entries) = 1

====
